---- MODULE Spec2Model ----
(***************************************************************************)
(* Model of duplicatefilefinder.py: the progressive duplicate-detection    *)
(* pipeline filter_duplicate_files (by size, by Adler-32 of the first      *)
(* block, by SHA-256 of the whole content) with its optional fast mode.    *)
(*                                                                         *)
(* A file is a path (a number 1..n, in enumeration order) whose content is *)
(* a sequence of bytes.  The three key functions are computed from the     *)
(* bytes as the code computes them.  SHA-256 is modelled as a collision-   *)
(* free digest: the digest state is an injective encoding of the bytes     *)
(* fed to it so far.                                                       *)
(***************************************************************************)
EXTENDS Integers, Sequences, FiniteSets, TLC

VARIABLES content, top, files, stage, pc, i, duplicates, count, duplicate_count, result

vars == <<content, top, files, stage, pc, i, duplicates, count, duplicate_count, result>>

(***************************************************************************)
(* Bounds of the model.                                                    *)
(***************************************************************************)
\* Largest number of enumerated files in Spec.
MaxFiles == 4
\* Number of enumerated files in SpecFast.
FastFiles == 6
\* Largest positive top in Spec, and largest magnitude of a negative top.
MaxTop == 1
MaxNegTop == 1
\* Largest top in SpecFast.
FastTop == 2
\* Byte values are 0..MaxByte.
MaxByte == 2
\* Bytes read by get_crc_key (inputfile.read(1024)), scaled down.
BlockBytes == 3
\* Bytes per read of get_hash_key (inputfile.read(1024 * 8)), scaled down.
ChunkBytes == 2

(***************************************************************************)
(* Python values.                                                          *)
(***************************************************************************)
\* None is the empty tuple, an integer n is <<n>>.
None == <<>>

Some(n) == <<n>>

\* Python truthiness of an optional integer: None and 0 are false.
Truthy(t) == t # None /\ t[1] # 0

Min(a, b) == IF a < b THEN a ELSE b

Max(a, b) == IF a > b THEN a ELSE b

Range(s) == {s[k] : k \in DOMAIN s}

\* seq[:k] of Python: k None keeps all, k >= 0 the first k, k < 0 drops the last -k.
Slice(seq, k) ==
    IF k = None THEN seq
    ELSE IF k[1] >= 0 THEN SubSeq(seq, 1, Min(k[1], Len(seq)))
    ELSE SubSeq(seq, 1, Max(Len(seq) + k[1], 0))

(***************************************************************************)
(* File contents of the model.                                             *)
(***************************************************************************)
\* Two contents of 4 bytes that agree on the first block and differ after it,
\* one of 4 bytes with another first block, one more of 4 bytes, and two of
\* 3 bytes whose Adler-32 checksums collide.
Contents == { <<1, 1, 1, 0>>, <<1, 1, 1, 2>>, <<2, 0, 0, 0>>, <<0, 2, 0>>, <<1, 0, 1>> }

FastContents == { <<1, 1, 1, 0>>, <<2, 0, 0, 0>>, <<0, 2, 0, 0>>, <<0, 2, 0>> }

(***************************************************************************)
(* Key functions.                                                          *)
(***************************************************************************)
\* os.path.getsize
getsize(c) == Len(c)

\* zlib.adler32: a starts at 1, b at 0; per byte a += byte, b += a, mod 65521.
RECURSIVE adler32_from(_, _, _)
adler32_from(a, b, chunk) ==
    IF chunk = <<>> THEN b * 65536 + a
    ELSE LET a2 == (a + Head(chunk)) % 65521
         IN adler32_from(a2, (b + a2) % 65521, Tail(chunk))

adler32(chunk) == adler32_from(1, 0, chunk)

\* get_crc_key: the checksum of the first block only.
get_crc_key(c) == adler32(SubSeq(c, 1, Min(BlockBytes, Len(c))))

\* hash_object.update(chunk): the digest state absorbs the bytes of the chunk.
RECURSIVE sha_update(_, _)
sha_update(h, chunk) ==
    IF chunk = <<>> THEN h
    ELSE sha_update(h * (MaxByte + 2) + Head(chunk) + 1, Tail(chunk))

\* The read loop of get_hash_key from position pos: read(ChunkBytes) until b''.
RECURSIVE hash_from(_, _, _)
hash_from(h, c, pos) ==
    LET chunk == SubSeq(c, pos, Min(pos + ChunkBytes - 1, Len(c)))
    IN IF chunk = <<>> THEN h
       ELSE hash_from(sha_update(h, chunk), c, pos + ChunkBytes)

\* A hash of the first chunk only.
get_hash_key_first_chunk(c) == sha_update(0, SubSeq(c, 1, Min(ChunkBytes, Len(c))))

\* get_hash_key: the digest of the whole content.
get_hash_key(c) == hash_from(0, c, 1)

\* The key function of each iteration, applied to a path.
keyfunction(st, filepath) ==
    IF st = 1 THEN getsize(content[filepath])
    ELSE IF st = 2 THEN get_crc_key(content[filepath])
    ELSE get_hash_key(content[filepath])

\* A size budget of top * 2.
topcount_double(st, t) ==
    IF st = 3 THEN None
    ELSE IF Truthy(t) THEN Some(t[1] * 2) ELSE None

\* The third field of each iteration: top**2, top*2, None.
topcount(st, t) ==
    IF st = 1 THEN (IF Truthy(t) THEN Some(t[1] * t[1]) ELSE None)
    ELSE IF st = 2 THEN (IF Truthy(t) THEN Some(t[1] * 2) ELSE None)
    ELSE None

(***************************************************************************)
(* The dictionary of groups: its entries in insertion order, the order in  *)
(* which a dict of Python 3.7 or later iterates.                           *)
(***************************************************************************)
HasKey(d, key) == \E k \in DOMAIN d : d[k].key = key

IndexOf(d, key) == CHOOSE k \in DOMAIN d : d[k].key = key

\* duplicates[key]
Lookup(d, key) == d[IndexOf(d, key)].paths

\* duplicates.setdefault(key, []).append(filepath)
setdefault_append(d, key, filepath) ==
    IF HasKey(d, key)
    THEN [d EXCEPT ![IndexOf(d, key)].paths = Append(@, filepath)]
    ELSE Append(d, [key |-> key, paths |-> <<filepath>>])

\* duplicates.values()
values(d) == [k \in DOMAIN d |-> d[k].paths]

\* count misses the first member of a new pair.
count_after_single(c, n) == IF n > 1 THEN c + 1 ELSE c

\* count after a file joined a group that now has n members.
count_after(c, n) == IF n > 1 THEN (IF n = 2 THEN c + 2 ELSE c + 1) ELSE c

\* duplicate_count after a file joined a group that now has n members.
duplicate_count_after(dc, n) == IF n = 2 THEN dc + 1 ELSE dc

\* Insertion of g into a list sorted by length, descending, behind its equals.
RECURSIVE insert_by_len(_, _)
insert_by_len(s, g) ==
    IF s = <<>> THEN <<g>>
    ELSE IF Len(Head(s)) >= Len(g) THEN <<Head(s)>> \o insert_by_len(Tail(s), g)
    ELSE <<g>> \o s

RECURSIVE sort_from(_, _)
sort_from(acc, rest) ==
    IF rest = <<>> THEN acc ELSE sort_from(insert_by_len(acc, Head(rest)), Tail(rest))

\* The groups in their order of insertion, unsorted.
unsorted(groups) == groups

\* sorted(groups, key=len, reverse=True): stable, longest first.
sorted(groups) == sort_from(<<>>, groups)

RECURSIVE flatten(_)
flatten(groups) == IF groups = <<>> THEN <<>> ELSE Head(groups) \o flatten(Tail(groups))

multi(groups) == SelectSeq(groups, LAMBDA g : Len(g) > 1)

\* The budget counts files, not groups.
kept_files_by_file(sortedfiles, k) == Slice(flatten(multi(sortedfiles)), k)

\* Singletons are carried on.
kept_files_all(sortedfiles, k) == flatten(Slice(sortedfiles, k))

\* Pairs are dropped too.
kept_files_over_two(sortedfiles, k) ==
    flatten(SelectSeq(Slice(sortedfiles, k), LAMBDA g : Len(g) > 2))

\* [filepath for filepaths in sortedfiles[:topcount] if len(filepaths) > 1 for filepath in filepaths]
kept_files(sortedfiles, k) == flatten(multi(Slice(sortedfiles, k)))

\* Every group is returned.
returned_all(d) == values(d)

\* [filelist for filelist in duplicates.values() if len(filelist) > 1]
returned(d) == multi(values(d))

(***************************************************************************)
(* The state machine: one run of filter_duplicate_files(files, top).       *)
(***************************************************************************)
Tops == {None, Some(0)} \cup {Some(t) : t \in 1..MaxTop} \cup {Some(0 - t) : t \in 1..MaxNegTop}

InitRun ==
    /\ files = [k \in DOMAIN content |-> k]
    /\ stage = 1
    /\ pc = "start"
    /\ i = 0
    /\ duplicates = <<>>
    /\ count = 0
    /\ duplicate_count = 0
    /\ result = <<>>

Init ==
    /\ \E n \in 0..MaxFiles : content \in [1..n -> Contents]
    /\ top \in Tops
    /\ InitRun

InitFast ==
    /\ content \in [1..FastFiles -> FastContents]
    /\ top \in {None} \cup {Some(t) : t \in 1..FastTop}
    /\ InitRun

\* The head of the body of the loop over the iterations.
StartStage ==
    /\ pc = "start"
    /\ duplicates' = <<>>
    /\ count' = 0
    /\ duplicate_count' = 0
    /\ i' = 0
    /\ pc' = "scan"
    /\ UNCHANGED <<content, top, files, stage, result>>

\* One pass of the loop over the files of the stage.
ScanFile ==
    /\ pc = "scan"
    /\ i < Len(files)
    /\ LET filepath == files[i + 1]
           key == keyfunction(stage, filepath)
           d == setdefault_append(duplicates, key, filepath)
           n == Len(Lookup(d, key))
       IN /\ duplicates' = d
          /\ count' = count_after(count, n)
          /\ duplicate_count' = duplicate_count_after(duplicate_count, n)
    /\ i' = i + 1
    /\ UNCHANGED <<content, top, files, stage, pc, result>>

\* The key function raises (the file vanished or cannot be read); nothing
\* in filter_duplicate_files catches it.
ReadError ==
    /\ pc = "scan"
    /\ i < Len(files)
    /\ pc' = "aborted"
    /\ UNCHANGED <<content, top, files, stage, i, duplicates, count, duplicate_count, result>>

\* The end of the scan: the groups are sorted and the candidates of the next
\* stage are taken from them.
EndStage ==
    /\ pc = "scan"
    /\ i = Len(files)
    /\ files' = kept_files(sorted(values(duplicates)), topcount(stage, top))
    /\ IF stage < 3
       THEN stage' = stage + 1 /\ pc' = "start"
       ELSE stage' = stage /\ pc' = "return"
    /\ UNCHANGED <<content, top, i, duplicates, count, duplicate_count, result>>

Return ==
    /\ pc = "return"
    /\ result' = returned(duplicates)
    /\ pc' = "done"
    /\ UNCHANGED <<content, top, files, stage, i, duplicates, count, duplicate_count>>

Next == StartStage \/ ScanFile \/ ReadError \/ EndStage \/ Return

Spec == Init /\ [][Next]_vars

SpecFast == InitFast /\ [][Next]_vars

(***************************************************************************)
(* The pipeline as a function of its arguments.                            *)
(***************************************************************************)
RECURSIVE group_all(_, _, _)
group_all(d, fs, st) ==
    IF fs = <<>> THEN d
    ELSE group_all(setdefault_append(d, keyfunction(st, Head(fs)), Head(fs)), Tail(fs), st)

next_files(fs, st, t) == kept_files(sorted(values(group_all(<<>>, fs, st))), topcount(st, t))

filter_duplicate_files(fs, t) ==
    returned(group_all(<<>>, next_files(next_files(fs, 1, t), 2, t), 3))

(***************************************************************************)
(* Vocabulary of the properties.                                           *)
(***************************************************************************)
Paths == DOMAIN content

Input == [k \in DOMAIN content |-> k]

Positive(t) == t # None /\ t[1] > 0

\* The indexes of the groups with 2 or more members.
MultiIdx(d) == {k \in DOMAIN d : Len(d[k].paths) >= 2}

Members(d, K) == UNION {Range(d[k].paths) : k \in K}

\* Group j ranks before group k: more members, or as many and discovered earlier.
Beats(d, j, k) ==
    \/ Len(d[j].paths) > Len(d[k].paths)
    \/ Len(d[j].paths) = Len(d[k].paths) /\ j < k

\* The n multi-member groups with the most members.
TopGroups(d, n) == {k \in MultiIdx(d) : Cardinality({j \in MultiIdx(d) : Beats(d, j, k)}) < n}

RECURSIVE SumLen(_, _)
SumLen(d, K) ==
    IF K = {} THEN 0
    ELSE LET k == CHOOSE x \in K : TRUE IN Len(d[k].paths) + SumLen(d, K \ {k})

\* A stage has just ended: duplicates holds its groups, files the candidates kept.
StageEnded == (pc = "start" /\ stage > 1) \/ pc = "return"

EndedStage == IF pc = "return" THEN stage ELSE stage - 1

\* The contents that two or more of the input files have.
DuplicatedContents == {c \in Range(content) : Cardinality({p \in Paths : content[p] = c}) >= 2}

\* C1: with top = None, any two input files of identical content are together
\* in exactly one returned Duplicate Set.
C1_Exhaustive ==
    (pc = "done" /\ top = None) =>
        \A a, b \in Paths :
            (a # b /\ content[a] = content[b]) =>
                Cardinality({k \in DOMAIN result : {a, b} \subseteq Range(result[k])}) = 1

\* Two duplicate groups of the same size and the same partial checksum are
\* returned, each content in a set of its own.
C1_Witness ==
    /\ pc = "done" /\ top = None /\ Len(result) = 2
    /\ \E a, b \in Paths :
          /\ content[a] # content[b]
          /\ get_crc_key(content[a]) = get_crc_key(content[b])
          /\ Len(content[a]) = Len(content[b])
          /\ a \in Range(result[1])
          /\ b \in Range(result[2])

\* C2: for every top, the members of each returned Duplicate Set have
\* byte-identical content.
C2_NoFalsePositives ==
    pc = "done" =>
        \A k \in DOMAIN result : \A a, b \in Range(result[k]) : content[a] = content[b]

\* A set is returned while a file with the same partial checksum as its
\* members, and another content, reached the last stage and is left out.
C2_Witness ==
    /\ pc = "done" /\ Len(result) >= 1
    /\ \E a, b \in Paths :
          /\ a \in Range(result[1])
          /\ b \in Members(duplicates, DOMAIN duplicates)
          /\ get_crc_key(content[a]) = get_crc_key(content[b])
          /\ content[a] # content[b]
          /\ \A k \in DOMAIN result : b \notin Range(result[k])

\* C3: no returned Duplicate Set has fewer than 2 members; the groups of the
\* last stage with one member are not returned.
C3_MinimumGroupSize ==
    pc = "done" =>
        /\ \A k \in DOMAIN result : Cardinality(Range(result[k])) >= 2
        /\ \A k \in DOMAIN duplicates :
              Len(duplicates[k].paths) = 1 =>
                  \A j \in DOMAIN result : Range(duplicates[k].paths) \cap Range(result[j]) = {}

\* The last stage built a group of one member, and a set is returned.
C3_Witness ==
    /\ pc = "done" /\ Len(result) >= 1
    /\ \E k \in DOMAIN duplicates : Len(duplicates[k].paths) = 1

\* C4: the candidates never grow, and the candidates a stage hands on were all
\* in a group of 2 or more members of that stage.
C4_MonotonicNarrowing ==
    [][ /\ Range(files') \subseteq Range(files)
        /\ (pc = "scan" /\ pc' \in {"start", "return"}) =>
               Range(files') \subseteq Members(duplicates, MultiIdx(duplicates)) ]_vars

\* The size stage dropped a singleton and handed other files on.
C4_Witness ==
    /\ pc = "start" /\ stage = 2 /\ files # <<>>
    /\ \E k \in DOMAIN duplicates : Len(duplicates[k].paths) = 1

\* C5: a file that cannot be read at a stage does not abort the pipeline.
C5_NeverAborts == pc # "aborted"

\* C6: with a negative top no file is scanned and no result is produced.
C6_NegativeTopRejected == (top # None /\ top[1] < 0) => (i = 0 /\ pc # "done")

\* C7: with a positive top the size stage hands on exactly the members of the
\* top**2 largest multi-member groups and the partial-checksum stage those of
\* the top*2 largest (equal counts ranked by discovery order); the full-hash
\* stage, and every stage when top is None, hands on all multi-member groups.
C7_Truncation ==
    StageEnded =>
        /\ (Positive(top) /\ EndedStage = 1) =>
               Range(files) = Members(duplicates, TopGroups(duplicates, top[1] * top[1]))
        /\ (Positive(top) /\ EndedStage = 2) =>
               Range(files) = Members(duplicates, TopGroups(duplicates, top[1] * 2))
        /\ (EndedStage = 3 \/ top = None) =>
               Range(files) = Members(duplicates, MultiIdx(duplicates))

\* With top = 1 the partial-checksum stage built three multi-member groups
\* and dropped one of them.
C7_Witness ==
    /\ pc = "start" /\ stage = 3 /\ top = Some(1)
    /\ Cardinality(MultiIdx(duplicates)) = 3
    /\ \E k \in MultiIdx(duplicates) : Range(duplicates[k].paths) \cap Range(files) = {}
    /\ files # <<>>

\* C8: with top = 1, when the duplicated contents have pairwise different
\* sizes, at most one Duplicate Set is returned.
C8_TopOne ==
    ( /\ pc = "done" /\ top = Some(1)
      /\ \A c1, c2 \in DuplicatedContents : c1 # c2 => Len(c1) # Len(c2) )
        => Len(result) <= 1

\* Two duplicate pairs of different sizes, top = 1, one set returned.
C8_Witness ==
    /\ pc = "done" /\ top = Some(1)
    /\ Cardinality(DuplicatedContents) = 2
    /\ \A c1, c2 \in DuplicatedContents : c1 # c2 => Len(c1) # Len(c2)
    /\ Len(result) = 1

\* C9: with a positive top, each returned Duplicate Set has exactly the
\* members of one of the sets returned for the same files with top = None.
C9_WholeGroups ==
    (pc = "done" /\ Positive(top)) =>
        LET all == filter_duplicate_files(Input, None)
        IN \A k \in DOMAIN result : \E j \in DOMAIN all : Range(result[k]) = Range(all[j])

\* Fast mode returned a set and omitted another one that top = None returns.
C9_Witness ==
    /\ pc = "done" /\ Positive(top)
    /\ Len(result) >= 1
    /\ Len(result) < Len(filter_duplicate_files(Input, None))

\* C10: during a scan duplicate_count is the number of groups with 2 or more
\* members, count the number of files in them, every file scanned so far is
\* in exactly one group, and a scan starts with no group and zero counters.
C10_ProgressCounters ==
    pc = "scan" =>
        /\ duplicate_count = Cardinality(MultiIdx(duplicates))
        /\ count = SumLen(duplicates, MultiIdx(duplicates))
        /\ \A n \in 1..i :
              Cardinality({k \in DOMAIN duplicates :
                  \E m \in DOMAIN duplicates[k].paths : duplicates[k].paths[m] = files[n]}) = 1
        /\ SumLen(duplicates, DOMAIN duplicates) = i
        /\ i = 0 => (duplicates = <<>> /\ count = 0 /\ duplicate_count = 0)

\* In the partial-checksum stage a group of three and a group of one have
\* been built from four files.
C10_Witness ==
    /\ pc = "scan" /\ stage = 2 /\ i = 4
    /\ duplicate_count = 1 /\ count = 3
    /\ Len(duplicates) = 2

====
